---- MODULE Spec2Model ----
(***************************************************************************)
(* ncompare/core.py: the comparison of the structure of two NetCDF files.  *)
(*                                                                         *)
(* The orchestrator (compare, run_through_comparisons) is a sequential     *)
(* program; pc is its position.  A dataset is a tree: root variables,      *)
(* top-level groups and the variables of each group.  The shape and the    *)
(* content of the variable selected for value inspection are inputs that   *)
(* the program learns when it first reads them; the content is one value   *)
(* held by every element.                                                  *)
(*                                                                         *)
(* The sequence aligner (ncompare.sequence_operations.common_elements) is  *)
(* imported by core.py; it is modelled from section 4.1 of the design.     *)
(***************************************************************************)
EXTENDS Integers, Sequences, FiniteSets, TLC

\* ------------------------------------------------------------------ bounds

\* Longest sequence of names handed to the aligner on its own.
MaxLen == 3
\* Most dimensions of a variable.
MaxDims == 2
\* Largest extent of a dimension (0 is a zero-length dimension).
MaxExtent == 2
\* num_comparisons of compare_multiple_random_values (the code's default is
\* 100; the loop is the same for every count).
NumComparisons == 2

\* The tolerance thresh of _match_random_value, 1e-6, is the unit in which
\* the model counts values: a value n stands for n * 1e-6.
Thresh == 1

\* ------------------------------------------------------------------- names

Files == {"A", "B"}
GroupNames == {"g1", "g2"}
VarNames == {"u", "v"}
AlignNames == {"a", "b", "c", "d"}

\* Python's order of the variable names (sorted() on strings).
NameOrder == <<"u", "v">>

\* ----------------------------------------------------------------- helpers

InSeq(x, s) == \E k \in DOMAIN s : s[k] = x

Elems(s) == {s[k] : k \in DOMAIN s}

DupFreeSeqs(S, n) ==
    {s \in UNION {[1..k -> S] : k \in 0..n} :
        \A p, q \in DOMAIN s : p # q => s[p] # s[q]}

Abs(x) == IF x < 0 THEN -x ELSE x

\* sorted(names): the names of S in Python's string order.
Sorted(S) == SelectSeq(NameOrder, LAMBDA x : x \in S)

\* ----------------------------------------------------- the sequence aligner

\* First position of x in B at or after p; Len(B) + 1 when there is none.
RECURSIVE FirstFrom(_, _, _)
FirstFrom(B, x, p) ==
    IF p > Len(B) THEN Len(B) + 1
    ELSE IF B[p] = x THEN p
    ELSE FirstFrom(B, x, p + 1)

\* The entries B[p..m-1], each as a right-only row.
RightOnly(B, p, m) == [k \in 1..(IF m > p THEN m - p ELSE 0) |-> <<"", B[p + k - 1]>>]

\* Variant: a name of A that B holds only before the pointer is emitted as a
\* left-only row instead of a matched one.
RECURSIVE AlignFromLeftOnly(_, _, _, _)
AlignFromLeftOnly(A, B, n, p) ==
    IF n > Len(A) THEN RightOnly(B, p, Len(B) + 1)
    ELSE IF InSeq(A[n], B) /\ FirstFrom(B, A[n], p) <= Len(B)
         THEN LET m == FirstFrom(B, A[n], p)
              IN  RightOnly(B, p, m) \o <<<<A[n], A[n]>>>>
                      \o AlignFromLeftOnly(A, B, n + 1, m + 1)
         ELSE <<<<A[n], "">>>> \o AlignFromLeftOnly(A, B, n + 1, p)

\* Variant: the entries of B left after A is exhausted are dropped.
RECURSIVE AlignFromNoTail(_, _, _, _)
AlignFromNoTail(A, B, n, p) ==
    IF n > Len(A) THEN <<>>
    ELSE IF InSeq(A[n], B)
         THEN LET m == FirstFrom(B, A[n], p)
              IN  RightOnly(B, p, m) \o <<<<A[n], A[n]>>>>
                      \o AlignFromNoTail(A, B, n + 1, m + 1)
         ELSE <<<<A[n], "">>>> \o AlignFromNoTail(A, B, n + 1, p)

\* Walk A from position n with the pointer p into B: a name of A that B
\* holds is searched from p on, the entries skipped are right-only rows, then
\* the matched row, and the pointer moves past the match; a name B does not
\* hold is a left-only row; what is left of B follows A.
RECURSIVE AlignFrom(_, _, _, _)
AlignFrom(A, B, n, p) ==
    IF n > Len(A) THEN RightOnly(B, p, Len(B) + 1)
    ELSE IF InSeq(A[n], B)
         THEN LET m == FirstFrom(B, A[n], p)
              IN  RightOnly(B, p, m) \o <<<<A[n], A[n]>>>>
                      \o AlignFrom(A, B, n + 1, m + 1)
         ELSE <<<<A[n], "">>>> \o AlignFrom(A, B, n + 1, p)

\* The rows with their position index.
Indexed(pairs) ==
    [k \in DOMAIN pairs |-> [idx |-> k - 1, a |-> pairs[k][1], b |-> pairs[k][2]]]

CommonElements_LeftOnly(A, B) == Indexed(AlignFromLeftOnly(A, B, 1, 1))

CommonElements_NoTail(A, B) == Indexed(AlignFromNoTail(A, B, 1, 1))

\* common_elements(sequence_a, sequence_b): the aligned rows (idx, a, b).
CommonElements(A, B) == Indexed(AlignFrom(A, B, 1, 1))

\* ------------------------------------------------------------- the datasets

\* A dataset: the root group's variables and groups in the file's own order
\* (the order of netCDF4's dictionaries), the variables of each top-level
\* group, and whether its variables carry a scale_factor attribute.
Trees(V, G) ==
    {d \in [variables : DupFreeSeqs(V, Cardinality(V)),
            groups : DupFreeSeqs(G, Cardinality(G)),
            gvars : [GroupNames -> SUBSET VarNames],
            sf : BOOLEAN] :
        \A g \in GroupNames : ~InSeq(g, d.groups) => d.gvars[g] = {}}

\* The datasets of the orchestrator's runs: no root variable, at most the
\* group g1 holding at most the variable v.
OrchDatasets ==
    {d \in Trees({}, {"g1"}) : ~d.sf /\ d.gvars["g1"] \subseteq {"v"}}

\* The datasets of the structural walk: any root variables, groups and group
\* variables over the names, in any order, the variables with a scale factor
\* (so that a blank "sf:" cell can only be an absent variable's).
WalkDatasets == {d \in Trees(VarNames, GroupNames) : d.sf}

HasGroup(d, g) == InSeq(g, d.groups)

HasVar(d, g, v) == HasGroup(d, g) /\ v \in d.gvars[g]

\* A variable's shape: one extent per dimension.
Shapes == UNION {[1..n -> 0..MaxExtent] : n \in 0..MaxDims}

\* A scalar read from a variable: not-a-number, or a number (in units of
\* the tolerance).
Num(n) == [nan |-> FALSE, num |-> n]
NaN == [nan |-> TRUE, num |-> 0]
Numbers == {0, 1, 2}
Values == {NaN} \cup {Num(n) : n \in Numbers}

\* ------------------------------------------------------------------- state

VARIABLES
    cg,              \* comparison_var_group ("" when none was given)
    cv,              \* comparison_var_name ("" when none was given)
    ds,              \* the two datasets
    pc,              \* the orchestrator's position
    stages,          \* the stages entered so far, in order
    exc,             \* the last exception raised ("none" when none)
    reported,        \* the except block of run_through_comparisons has printed
    handles,         \* the dataset handles that are open
    opens,           \* how many handles have been opened
    var_shape,       \* the selected variable's shape in each file
    var_value,       \* the value every element of the selected variable
                     \* holds, in each file
    i,               \* compare_multiple_random_values: the loop counter
    num_mismatches,  \* compare_multiple_random_values: num_mismatches
    marks,           \* the progress markers printed, one per draw
    lastDraw,        \* the last call of _match_random_value
    summary,         \* the mismatch count printed after the loop (-1: none)
    rows,            \* the rows compare_two_nc_files has emitted
    seq_a,           \* the aligner on its own: its inputs,
    seq_b,
    aligned,         \* its result,
    aligned_ba,      \* its result on the swapped inputs,
    apc              \* and whether it has run

orchVars ==
    <<cg, cv, ds, pc, stages, exc, reported, handles, opens, var_shape,
      var_value, i, num_mismatches, marks, lastDraw, summary, rows>>

alignVars == <<seq_a, seq_b, aligned, aligned_ba, apc>>

vars == <<orchVars, alignVars>>

NoDraw ==
    [drawn |-> FALSE, index |-> <<>>, v1 |-> Num(0), kind |-> "none",
     v2 |-> Num(0), result |-> "none"]

\* The orchestrator before compare is called.
OrchStart(datasets, position) ==
    /\ ds \in [Files -> datasets]
    /\ pc = position
    /\ stages = <<>>
    /\ exc = "none"
    /\ reported = FALSE
    /\ handles = {}
    /\ opens = 0
    /\ var_shape = [f \in Files |-> <<>>]
    /\ var_value = [f \in Files |-> Num(0)]
    /\ i = 0
    /\ num_mismatches = 0
    /\ marks = <<>>
    /\ lastDraw = NoDraw
    /\ summary = -1
    /\ rows = <<>>

AlignIdle ==
    /\ seq_a = <<>>
    /\ seq_b = <<>>
    /\ aligned = <<>>
    /\ aligned_ba = <<>>
    /\ apc = "idle"

\* compare has accepted both paths (make_valid_path) and calls
\* run_through_comparisons with any group and variable name.
Init ==
    /\ cg \in {"", "g1"}
    /\ cv \in {"", "v"}
    /\ OrchStart(OrchDatasets, "RootDims")
    /\ AlignIdle

\* ------------------------------------------------- the code's pure functions

\* run_through_comparisons, "if comparison_var_group:": where the run goes
\* after the Groups stage.  (Variant: a variable name alone starts the
\* targeted inspection.)
AfterGroups_VarAlone == IF cg # "" \/ cv # "" THEN "PrintVarsA" ELSE "AllVariables"

AfterGroups == IF cg # "" THEN "PrintVarsA" ELSE "AllVariables"

\* run_through_comparisons, "if comparison_var_name:": where the run goes
\* after the variables of the selected group were listed.
AfterPrintVars == IF cv # "" THEN "SampleA" ELSE "AllVariables"

\* run_through_comparisons, "except KeyError": where an exception raised
\* inside the try block takes the run; any other exception leaves compare.
Caught(e) == e = "KeyError"

\* xr.open_dataset(path, group=groupname): "ok", or the OSError that
\* _print_vars expects for a group the file does not hold.
OpenGroup(d, groupname) == IF HasGroup(d, groupname) THEN "ok" ELSE "OSError"

\* dataset[varname]: "ok", or KeyError for a name the group does not hold.
GetVariable(d, groupname, varname) ==
    IF HasVar(d, groupname, varname) THEN "ok" ELSE "KeyError"

\* comparison_variable.values[0, :]: needs two dimensions and a first row.
FirstRow(shape) ==
    IF Len(shape) < 2 THEN "IndexError"
    ELSE IF shape[1] = 0 THEN "IndexError"
    ELSE "ok"

\* _match_random_value, the indexer: one random.randint(0, d - 1) per
\* dimension d of variable A.  Empty when an extent is 0: randint raises
\* ValueError on the empty range.
RandIndexes(shape) ==
    {ix \in [DOMAIN shape -> 0..MaxExtent] : \A k \in DOMAIN shape : ix[k] < shape[k]}

\* values[rand_index] on an array of the given shape: IndexError for too
\* many indices or an index past an extent, one element for a full index,
\* a sub-array for a shorter one.
IndexResult(shape, ix) ==
    IF Len(ix) > Len(shape) THEN "IndexError"
    ELSE IF \E k \in DOMAIN ix : ix[k] >= shape[k] THEN "IndexError"
    ELSE IF Len(ix) = Len(shape) THEN "scalar"
    ELSE "array"

\* The number of elements of the sub-array a shorter index selects.
RECURSIVE SubSize(_, _)
SubSize(shape, from) ==
    IF from > Len(shape) THEN 1 ELSE shape[from] * SubSize(shape, from + 1)

\* Variant: a difference equal to the tolerance is a mismatch.
MatchRandomValue_Geq(v1, v2) ==
    IF v1.nan \/ v2.nan THEN "None"
    ELSE IF Abs(v2.num - v1.num) >= Thresh THEN "False"
    ELSE "True"

\* Variant: only two not-a-numbers are missing; one is compared as 0.
MatchRandomValue_BothNaN(v1, v2) ==
    IF v1.nan /\ v2.nan THEN "None"
    ELSE IF Abs(v2.num - v1.num) > Thresh THEN "False"
    ELSE "True"

\* _match_random_value, "Evaluate the values", on two scalars.
MatchRandomValue(v1, v2) ==
    IF v1.nan \/ v2.nan THEN "None"
    ELSE IF Abs(v2.num - v1.num) > Thresh THEN "False"
    ELSE "True"

\* The same lines when v2 is a sub-array of `size` equal elements: one
\* element behaves as a scalar; np.isnan(v1) short-circuits the "or"; the
\* truth value of a longer array raises ValueError, and that of an empty one
\* is False or raises, by the numpy at hand.
MatchOutcomes(v1, kind, v2, size) ==
    IF kind = "scalar" \/ size = 1 THEN {MatchRandomValue(v1, v2)}
    ELSE IF v1.nan THEN {"None"}
    ELSE IF size = 0 THEN {"True", "ValueError"}
    ELSE {"ValueError"}

\* compare_multiple_random_values: the marker printed for a result.
Marker(result) ==
    IF result = "True" THEN "." ELSE IF result = "None" THEN "n" ELSE "x"

\* compare_multiple_random_values: num_mismatches after a result.
CountMismatch(count, result) ==
    IF result = "True" \/ result = "None" THEN count ELSE count + 1

\* ------------------------------------------------------ the structural walk

BlankProps == [dtype |-> "", shape |-> "", chunking |-> "", sf |-> " "]

NotFound == [found |-> FALSE, dtype |-> "", shape |-> "", chunking |-> "",
             scaled |-> FALSE, err |-> FALSE]

\* Whether the dataset holds the variable: in the named group, or in the root
\* group when no group is named.
Lookup(d, varname, groupname) ==
    IF groupname # "" THEN HasVar(d, groupname, varname)
    ELSE InSeq(varname, d.variables)

\* Variant: the lookup is made for an empty name too.
VarProperties_NoGuard(d, varname, groupname) ==
    IF Lookup(d, varname, groupname)
    THEN [found |-> TRUE, dtype |-> "dtype", shape |-> "shape",
          chunking |-> "chunking", scaled |-> d.sf, err |-> FALSE]
    ELSE [NotFound EXCEPT !.err = TRUE]

\* _var_properties(ds, varname, groupname): the variable and its rendered
\* dtype, shape and chunking; blanks for an empty name; err is the KeyError
\* of a lookup the dataset cannot answer.
VarProperties(d, varname, groupname) ==
    IF varname # ""
    THEN IF Lookup(d, varname, groupname)
         THEN [found |-> TRUE, dtype |-> "dtype", shape |-> "shape",
               chunking |-> "chunking", scaled |-> d.sf, err |-> FALSE]
         ELSE [NotFound EXCEPT !.err = TRUE]
    ELSE NotFound

\* The four property lines of one side: sf is the scale factor, or a blank
\* when there is no variable or no scale_factor attribute.
Rendered(p) ==
    [dtype |-> p.dtype, shape |-> p.shape, chunking |-> p.chunking,
     sf |-> IF p.found /\ p.scaled THEN "sf" ELSE " "]

\* _print_var_properties_side_by_side: the row of one aligned variable.
PrintVarProperties(v_a, v_b, nc_a, nc_b, g_a, g_b) ==
    LET pa == VarProperties(nc_a, v_a, g_a)
        pb == VarProperties(nc_b, v_b, g_b)
    IN  [kind |-> "var", ga |-> g_a, gb |-> g_b, a |-> v_a, b |-> v_b,
         pa |-> Rendered(pa), pb |-> Rendered(pb), na |-> 0, nb |-> 0,
         err |-> pa.err \/ pb.err]

VarRows(ce, nc_a, nc_b, g_a, g_b) ==
    [k \in DOMAIN ce |-> PrintVarProperties(ce[k].a, ce[k].b, nc_a, nc_b, g_a, g_b)]

\* compare_two_nc_files, the body of the loop over the aligned groups: the
\* group row, then the rows of the group's aligned sorted variables.  A side
\* without the group has no variables.
GroupBlock(g_a, g_b, nc_a, nc_b) ==
    LET vars_a_sorted == IF g_a # "" THEN Sorted(nc_a.gvars[g_a]) ELSE <<>>
        vars_b_sorted == IF g_b # "" THEN Sorted(nc_b.gvars[g_b]) ELSE <<>>
    IN  <<[kind |-> "group", ga |-> g_a, gb |-> g_b, a |-> "", b |-> "",
           pa |-> BlankProps, pb |-> BlankProps,
           na |-> Len(vars_a_sorted), nb |-> Len(vars_b_sorted), err |-> FALSE]>>
        \o VarRows(CommonElements(vars_a_sorted, vars_b_sorted), nc_a, nc_b, g_a, g_b)

RECURSIVE GroupBlocks(_, _, _, _)
GroupBlocks(ce, k, nc_a, nc_b) ==
    IF k > Len(ce) THEN <<>>
    ELSE GroupBlock(ce[k].a, ce[k].b, nc_a, nc_b) \o GroupBlocks(ce, k + 1, nc_a, nc_b)

\* compare_two_nc_files: every row, in the order emitted.
WalkRows(nc_a, nc_b) ==
    <<[kind |-> "root", ga |-> "", gb |-> "", a |-> "", b |-> "",
       pa |-> BlankProps, pb |-> BlankProps,
       na |-> Len(nc_a.variables), nb |-> Len(nc_b.variables), err |-> FALSE]>>
    \o VarRows(CommonElements(nc_a.variables, nc_b.variables), nc_a, nc_b, "", "")
    \o GroupBlocks(CommonElements(nc_a.groups, nc_b.groups), 1, nc_a, nc_b)

\* The rows emitted until a lookup raises.
UntilError(all) ==
    IF \E k \in DOMAIN all : all[k].err
    THEN SubSeq(all, 1, CHOOSE k \in DOMAIN all :
                            all[k].err /\ \A j \in 1..(k - 1) : ~all[j].err)
    ELSE all

\* ----------------------------------------------------------------- actions

cfgVars == <<cg, cv, ds>>
sampleVars == <<i, num_mismatches, marks, lastDraw, summary>>
inputVars == <<var_shape, var_value>>

\* An exception leaves the function; inside the try block of
\* run_through_comparisons a KeyError is reported and the run goes on.
Raise(e, inTry) ==
    /\ exc' = e
    /\ IF inTry /\ Caught(e)
       THEN reported' = TRUE /\ pc' = "AllVariables"
       ELSE reported' = reported /\ pc' = "Raised"

NoRaise(next) ==
    /\ exc' = exc
    /\ reported' = reported
    /\ pc' = next

Handle(f, owner) == [file |-> f, owner |-> owner]

\* Root-level dimensions: _get_dims on both files, each under "with".
GetDims ==
    /\ pc = "RootDims"
    /\ stages' = Append(stages, "RootDims")
    /\ opens' = opens + 2
    /\ NoRaise("Groups")
    /\ UNCHANGED <<cfgVars, handles, inputVars, sampleVars, rows, alignVars>>

\* Groups: _get_groups on both files, each under "with".
GetGroups ==
    /\ pc = "Groups"
    /\ stages' = Append(stages, "Groups")
    /\ opens' = opens + 2
    /\ NoRaise(AfterGroups)
    /\ UNCHANGED <<cfgVars, handles, inputVars, sampleVars, rows, alignVars>>

\* _print_vars(nc, comparison_var_group): opens the group and lists its
\* variables; the OSError of a missing group is printed and raised again.
PrintVars(f) ==
    /\ pc = (IF f = "A" THEN "PrintVarsA" ELSE "PrintVarsB")
    /\ stages' = IF f = "A" THEN Append(stages, "VariableGroupSelected") ELSE stages
    /\ IF OpenGroup(ds[f], cg) = "ok"
       THEN /\ handles' = handles \cup {Handle(f, "_print_vars")}
            /\ opens' = opens + 1
            /\ NoRaise(IF f = "A" THEN "PrintVarsB" ELSE AfterPrintVars)
       ELSE /\ UNCHANGED <<handles, opens>>
            /\ Raise("OSError", FALSE)
    /\ UNCHANGED <<cfgVars, inputVars, sampleVars, rows, alignVars>>

\* _print_sample_values(nc, group, variable), inside the try block: opens the
\* group, takes the variable and prints values[0, :].
PrintSampleValues(f) ==
    /\ pc = (IF f = "A" THEN "SampleA" ELSE "SampleB")
    /\ stages' = IF f = "A" THEN Append(stages, "VariableSelected") ELSE stages
    /\ IF OpenGroup(ds[f], cg) # "ok"
       THEN /\ UNCHANGED <<handles, opens, inputVars>>
            /\ Raise("OSError", TRUE)
       ELSE /\ handles' = handles \cup {Handle(f, "_print_sample_values")}
            /\ opens' = opens + 1
            /\ IF GetVariable(ds[f], cg, cv) # "ok"
               THEN /\ UNCHANGED inputVars
                    /\ Raise("KeyError", TRUE)
               ELSE \E shape \in Shapes :
                    /\ var_shape' = [var_shape EXCEPT ![f] = shape]
                    /\ UNCHANGED var_value
                    /\ IF FirstRow(shape) = "ok"
                       THEN NoRaise(IF f = "A" THEN "SampleB" ELSE "OpenVars")
                       ELSE Raise("IndexError", TRUE)
    /\ UNCHANGED <<cfgVars, sampleVars, rows, alignVars>>

\* compare_multiple_random_values, before the loop: opens the variable of
\* each file; the content of both is read with .values.
OpenVariables ==
    /\ pc = "OpenVars"
    /\ stages' = Append(stages, "SampleValues")
    /\ LET ra == IF OpenGroup(ds["A"], cg) # "ok" THEN "OSError"
                 ELSE GetVariable(ds["A"], cg, cv)
           rb == IF OpenGroup(ds["B"], cg) # "ok" THEN "OSError"
                 ELSE GetVariable(ds["B"], cg, cv)
           ha == IF ra = "OSError" THEN {} ELSE {Handle("A", "compare_multiple_random_values")}
           hb == IF ra # "ok" \/ rb = "OSError" THEN {}
                 ELSE {Handle("B", "compare_multiple_random_values")}
       IN  /\ handles' = handles \cup ha \cup hb
           /\ opens' = opens + Cardinality(ha) + Cardinality(hb)
           /\ IF ra # "ok"
              THEN UNCHANGED var_value /\ Raise(ra, TRUE)
              ELSE IF rb # "ok"
              THEN UNCHANGED var_value /\ Raise(rb, TRUE)
              ELSE \E va, vb \in Values :
                   /\ var_value' = [A |-> va, B |-> vb]
                   /\ NoRaise(IF NumComparisons = 0 THEN "Report" ELSE "Draw")
    /\ i' = 0
    /\ num_mismatches' = 0
    /\ UNCHANGED <<cfgVars, var_shape, marks, lastDraw, summary, rows, alignVars>>

\* One turn of the loop of compare_multiple_random_values: a call of
\* _match_random_value, then the marker and the count.
DrawSample ==
    /\ pc = "Draw"
    /\ i < NumComparisons
    /\ IF RandIndexes(var_shape["A"]) = {}
       THEN /\ Raise("ValueError", TRUE)
            /\ UNCHANGED sampleVars
       ELSE \E ix \in RandIndexes(var_shape["A"]) :
            LET kind == IndexResult(var_shape["B"], ix)
                draw == [drawn |-> TRUE, index |-> ix, v1 |-> var_value["A"],
                         kind |-> kind, v2 |-> var_value["B"], result |-> kind]
            IN  IF kind = "IndexError"
                THEN /\ Raise("IndexError", TRUE)
                     /\ lastDraw' = draw
                     /\ UNCHANGED <<i, num_mismatches, marks, summary>>
                ELSE \E r \in MatchOutcomes(var_value["A"], kind, var_value["B"],
                                            SubSize(var_shape["B"], Len(ix) + 1)) :
                     /\ lastDraw' = [draw EXCEPT !.result = r]
                     /\ summary' = summary
                     /\ IF r = "ValueError"
                        THEN /\ Raise("ValueError", TRUE)
                             /\ UNCHANGED <<i, num_mismatches, marks>>
                        ELSE /\ marks' = Append(marks, Marker(r))
                             /\ num_mismatches' = CountMismatch(num_mismatches, r)
                             /\ i' = i + 1
                             /\ NoRaise(IF i + 1 = NumComparisons THEN "Report" ELSE "Draw")
    /\ UNCHANGED <<cfgVars, stages, handles, opens, inputVars, rows, alignVars>>

\* compare_multiple_random_values, after the loop: the count of mismatches
\* is printed; the try block is left.
ReportMismatches ==
    /\ pc = "Report"
    /\ summary' = num_mismatches
    /\ NoRaise("AllVariables")
    /\ UNCHANGED <<cfgVars, stages, handles, opens, inputVars, i, num_mismatches,
                   marks, lastDraw, rows, alignVars>>

\* All variables: compare_two_nc_files opens both files under one "with",
\* which closes them when the walk ends or raises.
CompareTwoNcFiles ==
    /\ pc = "AllVariables"
    /\ stages' = Append(stages, "AllVariables")
    /\ opens' = opens + 2
    /\ LET all == WalkRows(ds["A"], ds["B"])
       IN  /\ rows' = UntilError(all)
           /\ IF \E k \in DOMAIN all : all[k].err
              THEN Raise("KeyError", FALSE)
              ELSE NoRaise("PrintDone")
    /\ UNCHANGED <<cfgVars, handles, inputVars, sampleVars, alignVars>>

\* compare, after run_through_comparisons has returned: the final "Done.".
PrintDone ==
    /\ pc = "PrintDone"
    /\ stages' = Append(stages, "Done")
    /\ NoRaise("Done")
    /\ UNCHANGED <<cfgVars, handles, opens, inputVars, sampleVars, rows, alignVars>>

\* The aligner applied to its inputs, and to its inputs swapped.
Align ==
    /\ apc = "ready"
    /\ aligned' = CommonElements(seq_a, seq_b)
    /\ aligned_ba' = CommonElements(seq_b, seq_a)
    /\ apc' = "done"
    /\ UNCHANGED <<orchVars, seq_a, seq_b>>

\* ---------------------------------------------------------- specifications

Next ==
    \/ GetDims
    \/ GetGroups
    \/ \E f \in Files : PrintVars(f)
    \/ \E f \in Files : PrintSampleValues(f)
    \/ OpenVariables
    \/ DrawSample
    \/ ReportMismatches
    \/ CompareTwoNcFiles
    \/ PrintDone

Spec == Init /\ [][Next]_vars

\* The structural walk over every pair of datasets: compare called without a
\* group or a variable name.
InitWalk ==
    /\ cg = ""
    /\ cv = ""
    /\ OrchStart(WalkDatasets, "RootDims")
    /\ AlignIdle

NextWalk ==
    \/ GetDims
    \/ GetGroups
    \/ CompareTwoNcFiles
    \/ PrintDone

SpecWalk == InitWalk /\ [][NextWalk]_vars

\* The aligner on its own, on every pair of duplicate-free sequences.
NoDataset == [variables |-> <<>>, groups |-> <<>>,
              gvars |-> [g \in GroupNames |-> {}], sf |-> FALSE]

InitAlign ==
    /\ cg = ""
    /\ cv = ""
    /\ OrchStart({NoDataset}, "idle")
    /\ seq_a \in DupFreeSeqs(AlignNames, MaxLen)
    /\ seq_b \in DupFreeSeqs(AlignNames, MaxLen)
    /\ aligned = <<>>
    /\ aligned_ba = <<>>
    /\ apc = "ready"

NextAlign == Align

SpecAlign == InitAlign /\ [][NextAlign]_vars

\* ------------------------------------------------------------------ claims

StageOrder ==
    <<"RootDims", "Groups", "VariableGroupSelected", "VariableSelected",
      "SampleValues", "AllVariables", "Done">>

StageRank(s) == CHOOSE k \in DOMAIN StageOrder : StageOrder[k] = s

Entered(s) == InSeq(s, stages)

\* C1: the stages are entered in the fixed order RootDims, Groups,
\* [VariableGroupSelected, [VariableSelected, SampleValues]], AllVariables,
\* Done, none of them twice; VariableGroupSelected only with a group name,
\* VariableSelected and SampleValues only with a variable name and a group
\* name, each only after the one before it; AllVariables only after RootDims
\* and Groups; and a run that ends at Done went through AllVariables.
C1_StagesInFixedOrder ==
    /\ \A p, q \in DOMAIN stages :
           p < q => StageRank(stages[p]) < StageRank(stages[q])
    /\ Entered("VariableGroupSelected") => cg # ""
    /\ Entered("VariableSelected") =>
           cg # "" /\ cv # "" /\ Entered("VariableGroupSelected")
    /\ Entered("SampleValues") =>
           cg # "" /\ cv # "" /\ Entered("VariableSelected")
    /\ Entered("AllVariables") =>
           Len(stages) >= 3 /\ stages[1] = "RootDims" /\ stages[2] = "Groups"
    /\ Entered("Done") => stages[Len(stages) - 1] = "AllVariables"

\* A run with a group and a variable name that went through all seven stages.
C1_Witness == pc = "Done" /\ stages = StageOrder

LookupErrors == {"OSError", "KeyError"}

\* C2: when targeted inspection was requested and the group or the variable
\* is missing in a file, the failure is caught and reported and the run goes
\* on to AllVariables and Done.
C2_LookupFailureIsReported ==
    (cg # "" /\ cv # "" /\ exc \in LookupErrors) =>
        (reported /\ pc \in {"AllVariables", "PrintDone", "Done"})

\* C3: whatever the group name, the variable name and the datasets, the run
\* of compare ends with the final "Done.": it never ends by an exception.
C3_RunEndsWithDone == pc # "Raised"

\* The markers "x" among those printed.
Mismatches == {k \in DOMAIN marks : marks[k] = "x"}

\* C6: a draw of two scalars is missing (None) when v1 or v2 is not-a-number;
\* otherwise it is a mismatch (False) exactly when |v2 - v1| is greater than
\* the tolerance and a match (True) otherwise, a difference equal to the
\* tolerance included; the marker printed is the result's; and the count
\* printed after the loop is printed after exactly n draws and is the number
\* of draws classified as mismatches.
C6_SampleClassification ==
    /\ (lastDraw.drawn /\ lastDraw.kind = "scalar") =>
           LET v1 == lastDraw.v1
               v2 == lastDraw.v2
               diff == v2.num - v1.num
           IN  /\ (v1.nan \/ v2.nan) => lastDraw.result = "None"
               /\ ~(v1.nan \/ v2.nan) =>
                      /\ Abs(diff) > Thresh => lastDraw.result = "False"
                      /\ Abs(diff) <= Thresh => lastDraw.result = "True"
               /\ marks # <<>>
               /\ marks[Len(marks)] =
                      (CASE lastDraw.result = "True" -> "."
                         [] lastDraw.result = "None" -> "n"
                         [] OTHER -> "x")
    /\ Len(marks) = i
    /\ num_mismatches = Cardinality(Mismatches)
    /\ summary # -1 =>
           /\ i = NumComparisons
           /\ summary = Cardinality(Mismatches)

\* The loop has ended on a draw whose difference equals the tolerance, which
\* was a match.
C6_Witness ==
    /\ summary = 0
    /\ lastDraw.kind = "scalar"
    /\ ~lastDraw.v1.nan /\ ~lastDraw.v2.nan
    /\ Abs(lastDraw.v2.num - lastDraw.v1.num) = Thresh
    /\ lastDraw.result = "True"

\* C7 as stated: a draw is classified missing only when both values are
\* not-a-number.
C7_MissingOnlyWhenBothNaN ==
    (lastDraw.drawn /\ lastDraw.kind = "scalar" /\ lastDraw.result = "None") =>
        (lastDraw.v1.nan /\ lastDraw.v2.nan)

\* C7, amended: a draw is classified missing exactly when at least one of the
\* two values is not-a-number; a draw with a not-a-number on one side only is
\* missing (marker "n"), never a match or a mismatch.
C7_MissingWhenEitherNaN ==
    (lastDraw.drawn /\ lastDraw.kind = "scalar") =>
        /\ (lastDraw.result = "None") <=> (lastDraw.v1.nan \/ lastDraw.v2.nan)
        /\ (lastDraw.v1.nan # lastDraw.v2.nan) =>
               (lastDraw.result = "None" /\ marks[Len(marks)] = "n")

\* A draw of not-a-number in A against a number in B.
C7_Witness ==
    /\ lastDraw.drawn
    /\ lastDraw.kind = "scalar"
    /\ lastDraw.v1.nan
    /\ lastDraw.v2 = Num(2)
    /\ lastDraw.result = "None"

\* C8: every handle opened for the targeted inspection is closed before the
\* next stage begins: none is open once the AllVariables stage is reached,
\* nor when Done is reached.
C8_NoHandleLeftOpen ==
    pc \in {"AllVariables", "PrintDone", "Done"} => handles = {}

\* C9: every component of a drawn index lies within the extents of the
\* corresponding dimension of variable A and of variable B.
C9_IndexInBounds ==
    lastDraw.drawn =>
        \A k \in DOMAIN lastDraw.index :
            /\ k \in DOMAIN var_shape["A"]
            /\ k \in DOMAIN var_shape["B"]
            /\ lastDraw.index[k] < var_shape["A"][k]
            /\ lastDraw.index[k] < var_shape["B"][k]

\* The rows of an alignment in which both names are non-empty, and their names.
Matched(al) == {k \in DOMAIN al : al[k].a # "" /\ al[k].b # ""}

MatchedNames(al) == {al[k].a : k \in Matched(al)}

\* The non-empty left names and the non-empty right names, in row order.
LeftNames(al) == [k \in DOMAIN SelectSeq(al, LAMBDA r : r.a # "") |->
                      SelectSeq(al, LAMBDA r : r.a # "")[k].a]

RightNames(al) == [k \in DOMAIN SelectSeq(al, LAMBDA r : r.b # "") |->
                       SelectSeq(al, LAMBDA r : r.b # "")[k].b]

Pairs(al) == [k \in DOMAIN al |-> <<al[k].a, al[k].b>>]

\* The names two sequences share come in the same order in both.
SameRelativeOrder(A, B) ==
    SelectSeq(A, LAMBDA x : InSeq(x, B)) = SelectSeq(B, LAMBDA x : InSeq(x, A))

\* C4: for duplicate-free A and B in any order, the rows with two non-empty
\* names carry the same name on both sides, the set of those names is the
\* intersection of A and B, there are as many such rows as common names, and
\* align(B, A) has the same set of matched names.
C4_MatchedRowsAreTheIntersection ==
    apc = "done" =>
        /\ \A k \in Matched(aligned) : aligned[k].a = aligned[k].b
        /\ MatchedNames(aligned) = Elems(seq_a) \cap Elems(seq_b)
        /\ Cardinality(Matched(aligned)) = Cardinality(Elems(seq_a) \cap Elems(seq_b))
        /\ MatchedNames(aligned_ba) = MatchedNames(aligned)

\* Two common names in the opposite order in A and in B, aligned.
C4_Witness ==
    /\ apc = "done"
    /\ seq_a = <<"a", "b">>
    /\ seq_b = <<"b", "a">>
    /\ MatchedNames(aligned) = {"a", "b"}

Walked == pc \in {"PrintDone", "Done"}

AllGroups == Elems(ds["A"].groups) \cup Elems(ds["B"].groups)

GroupRowsOf(g) ==
    {k \in DOMAIN rows : rows[k].kind = "group" /\ (rows[k].ga = g \/ rows[k].gb = g)}

\* The variable rows emitted under a group row with the given sides.
VarRowsUnder(g_a, g_b) ==
    SelectSeq(rows, LAMBDA r : r.kind = "var" /\ r.ga = g_a /\ r.gb = g_b)

\* In every variable row the side without a name is blank and the side with
\* a name carries the variable's properties.
AbsentSidesBlank ==
    \A k \in DOMAIN rows :
        rows[k].kind = "var" =>
            /\ rows[k].a # "" \/ rows[k].b # ""
            /\ IF rows[k].a = "" THEN rows[k].pa = BlankProps
               ELSE rows[k].pa.dtype # "" /\ rows[k].pa.sf # " "
            /\ IF rows[k].b = "" THEN rows[k].pb = BlankProps
               ELSE rows[k].pb.dtype # "" /\ rows[k].pb.sf # " "

\* A group of one dataset only has one group row, empty on the other side,
\* and each of its variables in a one-sided row.
OneSidedGroups ==
    \A g \in AllGroups :
        /\ (HasGroup(ds["A"], g) /\ ~HasGroup(ds["B"], g)) =>
               /\ Cardinality(GroupRowsOf(g)) = 1
               /\ \A k \in GroupRowsOf(g) : rows[k].ga = g /\ rows[k].gb = ""
               /\ LeftNames(VarRowsUnder(g, "")) = Sorted(ds["A"].gvars[g])
               /\ RightNames(VarRowsUnder(g, "")) = <<>>
        /\ (HasGroup(ds["B"], g) /\ ~HasGroup(ds["A"], g)) =>
               /\ Cardinality(GroupRowsOf(g)) = 1
               /\ \A k \in GroupRowsOf(g) : rows[k].ga = "" /\ rows[k].gb = g

====
